---- MODULE Spec2Model ----
(***************************************************************************)
(* Creator synchronisation engine of the post viewer.                      *)
(*                                                                         *)
(* The model follows syncCreator (src/src/lib/customAlerts.ts, the sync    *)
(* and civitai sections of that file) page by page: the relational store   *)
(* (creators / posts / images rows), the remote paginated source, the      *)
(* locals of one run, and the other actors that write the creator row      *)
(* (the "stop sync" button).                                               *)
(***************************************************************************)
EXTENDS Integers, Sequences, FiniteSets, TLC

\* ------------------------------------------------------------------------
\* Program constants
\* ------------------------------------------------------------------------
maxRequests == 50
PageLimit == 200
StopThreshold == 2

\* ------------------------------------------------------------------------
\* Bounds of the exploration
\* ------------------------------------------------------------------------
LongPages == 52
MaxRuns == 2
MaxClock == 1
MaxOtherWrites == 1
MaxStoreFaults == 1
MaxSeedK == 1
\* the remote source fails, and the user stops the sync, only while the run
\* has completed fewer than this many requests
MaxDisturbedRequests == 3

\* ------------------------------------------------------------------------
\* Null values
\* ------------------------------------------------------------------------
NoCursor == 0
NullTime == -1
NullUrl == 0
NullId == 0
NullHash == 0
Username == "alice"

\* ------------------------------------------------------------------------
\* Remote content source: a list of pages; page p is answered for cursor
\* p-1 (no cursor = newest page), and its continuation link, when it has
\* one, carries cursor p.  A page lists post groups <<post, images>>; since
\* an earlier sync the remote may have dropped some of their images (gone)
\* and may list further items (odd).
\* ------------------------------------------------------------------------
PgChanged(groups, gone, odd, link) ==
  [groups |-> groups, gone |-> gone, odd |-> odd, link |-> link]

Pg(groups, link) == PgChanged(groups, {}, << >>, link)

ScenarioSource ==
  << Pg(<< <<1, 120>>, <<2, 80>> >>, "cursor"),
     Pg(<< <<3, 200>> >>, "cursor"),
     Pg(<< <<4, 30>>, <<5, 20>> >>, "none") >>

SmallSource ==
  << Pg(<< <<1, 2>>, <<2, 1>> >>, "cursor"),
     Pg(<< <<3, 1>> >>, "cursor"),
     Pg(<< <<4, 2>> >>, "cursor"),
     Pg(<< <<5, 1>> >>, "none") >>

SplitSource ==
  << Pg(<< <<1, 1>>, <<2, 1>> >>, "cursor"),
     Pg(<< <<2, 2>>, <<3, 1>> >>, "none") >>

FullNoLinkSource == << Pg(<< <<1, 200>> >>, "none") >>

BadLinkSource ==
  << Pg(<< <<1, 1>> >>, "nocursor"),
     Pg(<< <<2, 1>> >>, "none") >>

LongSource ==
  [p \in 1..LongPages |->
     Pg(<< <<p, 1>> >>, IF p < LongPages THEN "cursor" ELSE "none")]

EmptySource == << >>

\* page 1: a post with an item without id, an item repeating the URL of
\* another one, and an image that the store still holds under post 8
OddSource ==
  << PgChanged(<< <<7, 2>> >>, {},
               << [id |-> NullId, postId |-> 7, url |-> 1003, hash |-> 1003],
                  [id |-> 1004, postId |-> 7, url |-> 1001, hash |-> 1001],
                  [id |-> 2001, postId |-> 7, url |-> 2001, hash |-> 2001] >>,
               "cursor"),
     PgChanged(<< <<8, 2>> >>, {2001}, << >>, "none") >>

Sources ==
  { ScenarioSource, SmallSource, SplitSource, FullNoLinkSource,
    BadLinkSource, LongSource, EmptySource, OddSource }

\* items of one post group: n consecutive image ids after base
GroupItems(post, n, base) ==
  [i \in 1..n |-> [id |-> base + i, postId |-> post, url |-> base + i,
                    hash |-> base + i]]

RECURSIVE ExpandGroups(_, _)
ExpandGroups(groups, base) ==
  IF groups = << >> THEN << >>
  ELSE GroupItems(Head(groups)[1], Head(groups)[2], base)
         \o ExpandGroups(Tail(groups), base + Head(groups)[2])

\* the items of page p as an earlier sync received them
RegularItems(src, p) == ExpandGroups(src[p].groups, 1000 * p)

\* the items of page p as the remote lists them now
PageItems(src, p) ==
  IF src[p].gone = {} /\ src[p].odd = << >>
    THEN RegularItems(src, p)
    ELSE SelectSeq(RegularItems(src, p), LAMBDA it : it.id \notin src[p].gone)
           \o src[p].odd

\* GET /images?username=..&limit=200&cursor=..  -> { items, metadata.nextPage }
Respond(src, cursor) ==
  LET p == cursor + 1 IN
  IF p \in 1..Len(src)
    THEN [items |-> PageItems(src, p),
          nextPage |-> [present |-> src[p].link # "none",
                        cursor |-> IF src[p].link = "cursor" THEN p ELSE NoCursor]]
    ELSE [items |-> << >>,
          nextPage |-> [present |-> FALSE, cursor |-> NoCursor]]

\* ------------------------------------------------------------------------
\* Error messages: the HTTP status named in the message and the numbers
\* the error details happen to mention.
\* ------------------------------------------------------------------------
NoError == [kind |-> "none", status |-> 0, mentions |-> {}]
SyncCancelled == [kind |-> "SYNC_CANCELLED", status |-> 0, mentions |-> {}]
NetworkError == [kind |-> "network", status |-> 0, mentions |-> {}]

HttpError(status, mentions) ==
  [kind |-> "http", status |-> status, mentions |-> mentions]

FetchErrors ==
  { HttpError(429, {}), HttpError(500, {}), HttpError(502, {}),
    HttpError(404, {500}), NetworkError }

\* errorMessage.includes('429') / errorMessage.includes('500')
Includes429(msg) == msg.status = 429 \/ 429 \in msg.mentions

\* (variant: every 5xx status taken for a server error)
Includes5xx(msg) == msg.status \in 500..599 \/ 500 \in msg.mentions

Includes500(msg) == msg.status = 500 \/ 500 \in msg.mentions

\* ------------------------------------------------------------------------
\* Pure helpers of the sync loop
\* ------------------------------------------------------------------------
\* statusCheck?.sync_status !== 'syncing' && !== 'pending'
IsCancelled(status) == status \notin {"syncing", "pending"}

\* keys of groupImagesByPost(items), in insertion order
PostKeys(items) ==
  LET first == { i \in 1..Len(items) :
                   \A j \in 1..(i - 1) : items[j].postId # items[i].postId }
      idx == SelectSeq([i \in 1..Len(items) |-> i], LAMBDA i : i \in first)
  IN [k \in 1..Len(idx) |-> items[idx[k]].postId]

\* groupImagesByPost(items).get(postId)
GroupOf(items, postId) == SelectSeq(items, LAMBDA it : it.postId = postId)

ImageCountOf(imgs, postId) ==
  Cardinality({ i \in DOMAIN imgs : imgs[i].post_id = postId })

\* count of posts rows with creator_username = username
PostCount(ps) ==
  Cardinality({ p \in DOMAIN ps : ps[p].creator_username = Username })

\* (variant: the early stop applied to a full backfill as well)
ShouldStopAlways(fullBackfill, consecutive, hasNext) ==
  \/ (consecutive >= StopThreshold /\ ~hasNext)
  \/ consecutive >= StopThreshold

\* (variant: the early stop one page late)
ShouldStopLate(fullBackfill, consecutive, hasNext) ==
  /\ ~fullBackfill
  /\ \/ (consecutive > StopThreshold /\ ~hasNext)
     \/ consecutive > StopThreshold

\* the early-stop branch taken on a page whose groups all already existed
ShouldStop(fullBackfill, consecutive, hasNext) ==
  /\ ~fullBackfill
  /\ \/ (consecutive >= StopThreshold /\ ~hasNext)
     \/ consecutive >= StopThreshold

\* cursor value extracted from metadata.nextPage
ExtractCursor(nextPage) ==
  IF nextPage.present THEN nextPage.cursor ELSE NoCursor

\* (variant: any non-empty page taken as a sign of more data)
HasMoreIfAny(nextPage, len) == nextPage.present \/ len > 0

\* hasMore = !!nextPage || items.length === 200
HasMore(nextPage, len) == nextPage.present \/ len = PageLimit

\* (variant: the counter restarted on every page)
CountRestarted(allExisting, consecutive) == IF allExisting THEN 1 ELSE 0

\* consecutiveFullyExistingPages after a page
NextConsecutive(allExisting, consecutive) ==
  IF allExisting THEN consecutive + 1 ELSE 0

\* ------------------------------------------------------------------------
\* Store writes of one page
\* ------------------------------------------------------------------------
\* posts.upsert({post_id, creator_username, cover_image_url, image_count, ..})
UpsertPost(ps, postId, imgs) ==
  [p \in DOMAIN ps \cup {postId} |->
     IF p = postId
       THEN [creator_username |-> Username,
             cover_image_url |-> imgs[1].url,
             image_count |-> Len(imgs)]
       ELSE ps[p]]

\* the images table takes the row: image_id is NOT NULL, and the write is
\* not one the store refuses
ImageAccepted(image, failImages) ==
  image.id # NullId /\ image.id \notin failImages

\* images.upsert({image_id, post_id, url, ..}, onConflict image_id) for every
\* image of the group whose write succeeds
UpsertImages(imgs, postId, group, failImages) ==
  LET ok == { i \in 1..Len(group) : ImageAccepted(group[i], failImages) }
      ids == { group[i].id : i \in ok }
      last(id) == LET same == { i \in ok : group[i].id = id }
                  IN CHOOSE i \in same : \A j \in same : j <= i
  IN [id \in DOMAIN imgs \cup ids |->
        IF id \in ids
          THEN [post_id |-> postId, url |-> group[last(id)].url,
                hash |-> group[last(id)].hash]
          ELSE imgs[id]]

\* successfulImagesSaved
SavedCount(group, failImages) ==
  Cardinality({ i \in 1..Len(group) : ImageAccepted(group[i], failImages) })

\* images.upsert calls of the group issued with a null image_id
InvalidUpserts(group) ==
  Cardinality({ i \in 1..Len(group) : group[i].id = NullId })

\* body of the loop over postGroups for one post
SaveGroup(st, postId, group, failPosts, failImages) ==
  LET exists == postId \in DOMAIN st.posts
      st1 == [st EXCEPT !.existing = IF exists THEN @ + 1 ELSE @]
  IN IF exists /\ ImageCountOf(st.images, postId) > 0
       THEN st1
     ELSE IF postId \in failPosts
       THEN [st1 EXCEPT !.fresh = @ + 1]
     ELSE LET saved == SavedCount(group, failImages)
              ps1 == UpsertPost(st1.posts, postId, group)
              ps2 == IF saved # Len(group)
                       THEN [ps1 EXCEPT ![postId].image_count = saved]
                       ELSE ps1
          IN [st1 EXCEPT !.posts = ps2,
                         !.images = UpsertImages(st1.images, postId, group, failImages),
                         !.fresh = @ + 1,
                         !.invalid = @ + InvalidUpserts(group)]

RECURSIVE SaveGroups(_, _, _, _, _)
SaveGroups(st, keys, items, failPosts, failImages) ==
  IF keys = << >> THEN st
  ELSE SaveGroups(SaveGroup(st, Head(keys), GroupOf(items, Head(keys)),
                            failPosts, failImages),
                  Tail(keys), items, failPosts, failImages)

SavePage(ps, imgs, items, failPosts, failImages) ==
  SaveGroups([posts |-> ps, images |-> imgs, existing |-> 0, fresh |-> 0,
              invalid |-> 0],
             PostKeys(items), items, failPosts, failImages)

\* (variant: completion without the timestamp)
CompletedRowNoTime(row, count, now) ==
  [row EXCEPT !.sync_status = "completed", !.total_posts = count]

\* creators.update({ sync_status: 'completed', last_synced_at: now, total_posts })
CompletedRow(row, count, now) ==
  [row EXCEPT !.sync_status = "completed",
              !.last_synced_at = now,
              !.total_posts = count]

\* (variant: the error status not persisted)
ErrorRowSkipped(row) == row

\* creators.update({ sync_status: 'error' })
ErrorRow(row) == [row EXCEPT !.sync_status = "error"]

\* ------------------------------------------------------------------------
\* Stores a run can start from: the pages after the first k already
\* mirrored by an earlier sync ("synced"), or their posts discovered by
\* the scraper without cover and images ("scraped").
\* ------------------------------------------------------------------------
PagePosts(src, p) ==
  { src[p].groups[g][1] : g \in 1..Len(src[p].groups) }

PostsAfter(src, k) == UNION { PagePosts(src, p) : p \in (k + 1)..Len(src) }

\* the page of an earlier sync that wrote the post: the first one after k
FirstPage(src, k, postId) ==
  CHOOSE p \in (k + 1)..Len(src) :
    /\ postId \in PagePosts(src, p)
    /\ \A q \in (k + 1)..(p - 1) : postId \notin PagePosts(src, q)

SyncedPosts(src, k) ==
  [x \in PostsAfter(src, k) |->
     LET group == GroupOf(RegularItems(src, FirstPage(src, k, x)), x)
     IN [creator_username |-> Username,
         cover_image_url |-> group[1].url,
         image_count |-> Len(group)]]

SyncedImages(src, k) ==
  LET rs == UNION { { [id |-> it.id, post_id |-> x, url |-> it.url, hash |-> it.hash] :
                          it \in { GroupOf(RegularItems(src, FirstPage(src, k, x)), x)[i] :
                                     i \in 1..Len(GroupOf(RegularItems(src, FirstPage(src, k, x)), x)) } }
                      : x \in PostsAfter(src, k) }
  IN [id \in { r.id : r \in rs } |->
        LET r == CHOOSE r \in rs : r.id = id
        IN [post_id |-> r.post_id, url |-> r.url, hash |-> r.hash]]

ScrapedPosts(src, k) ==
  [x \in PostsAfter(src, k) |->
     [creator_username |-> Username, cover_image_url |-> NullUrl, image_count |-> 0]]

Seeds(src) ==
  { [k |-> k, kind |-> "synced"] : k \in { j \in 0..MaxSeedK : j < Len(src) } }
    \cup { [k |-> 0, kind |-> "scraped"] : j \in { j \in {0} : j < Len(src) } }
    \cup { [k |-> Len(src), kind |-> "synced"] }

SeedPosts(src, sd) ==
  IF sd.kind = "scraped" THEN ScrapedPosts(src, sd.k)
  ELSE SyncedPosts(src, sd.k)

SeedImages(src, sd) ==
  IF sd.kind = "scraped" THEN << >>
  ELSE SyncedImages(src, sd.k)

SeedCreator(src, sd) ==
  IF sd.kind = "synced" /\ sd.k < Len(src)
    THEN [present |-> TRUE, sync_status |-> "completed", last_cursor |-> NoCursor,
          last_synced_at |-> 0, total_posts |-> PostCount(SeedPosts(src, sd))]
    ELSE [present |-> TRUE, sync_status |-> "pending", last_cursor |-> NoCursor,
          last_synced_at |-> NullTime, total_posts |-> 0]

\* what maybeSingle() yields when the acting user owns no row for the username
MissingRow ==
  [present |-> FALSE, sync_status |-> "undefined", last_cursor |-> NoCursor,
   last_synced_at |-> NullTime, total_posts |-> 0]

\* the creators rows a behaviour may start with
SeedCreators(src, sd) ==
  { SeedCreator(src, sd) }
    \cup (IF src = SmallSource /\ sd.k = Len(src) THEN { MissingRow } ELSE {})

\* creators.update(..).eq('username', ..).eq('user_id', ..): no row matches
\* when the row is missing, and the update reports no error
UpdateWhere(row, changed) == IF row.present THEN changed ELSE row

FailablePosts == {1}
FailableImages == {1001}

\* ------------------------------------------------------------------------
\* The application around syncCreator: the creators rows of several
\* usernames and users, and the triggers that start syncs.
\* ------------------------------------------------------------------------
NoUser == "none"
Users == {"u1", "u2"}
Names == {"a", "b"}

\* 24 * 60 * 60 * 1000 ms, the time counted in half days
DayTicks == 2
MaxToday == 3
MaxRunPages == 2

\* startBackgroundSync may fire from the session restore and from the
\* auth-state listener (or the triggerSync event); the feed has its button
Background == {"bg1", "bg2"}
Slots == Background \cup {"feed"}

FollowedRow(owner, status, syncedAt) ==
  [owner |-> owner, sync_status |-> status, last_synced_at |-> syncedAt]

IdleTask ==
  [pc |-> "idle", queue |-> << >>, pages |-> 0, shouldSync |-> "unknown"]

\* .or('sync_status.eq.pending,last_synced_at.is.null,last_synced_at.lt.' + (now - 24h))
Stale(row, t) ==
  \/ row.sync_status = "pending"
  \/ row.last_synced_at = NullTime
  \/ (row.last_synced_at # NullTime /\ row.last_synced_at < t - DayTicks)

\* syncAllCreators: creators.select(..).eq('user_id', user.id).or(..)
SelectedCreators(u, rs, t) ==
  { c \in DOMAIN rs : rs[c].owner = u /\ Stale(rs[c], t) }

\* (variant: the query not restricted to the rows of the user)
needsSyncAnyOwner(u, rs, t) ==
  IF u = NoUser THEN FALSE
  ELSE { c \in DOMAIN rs : Stale(rs[c], t) } # {}

\* needsSync(): false without a user, else whether the same query has rows
needsSync(u, rs, t) ==
  IF u = NoUser THEN FALSE
  ELSE { c \in DOMAIN rs : rs[c].owner = u /\ Stale(rs[c], t) } # {}

\* the rows of a query result, in the order the table returns them
RECURSIVE InOrder(_)
InOrder(set) ==
  IF set = {} THEN << >>
  ELSE LET c == CHOOSE x \in set : \A y \in set : x = y \/ x = "a"
       IN << c >> \o InOrder(set \ {c})

\* ------------------------------------------------------------------------
\* Per-post repair: syncIncompletePosts and PostDetail.handleSyncImages ask
\* the remote for the images of one post.
\* ------------------------------------------------------------------------
RepairPosts == {1, 2, 3}
ForeignPost == 4

\* GET /images?postId=p: the items the remote lists for the post
ApiItems(p) ==
  [i \in 1..2 |-> [id |-> 10 * p + i, postId |-> p, url |-> 10 * p + i,
                    hash |-> 10 * p + i]]

\* the request ends with a response that is not ok, without items, with an
\* exception, or with the items
PostAnswers == {"notok", "empty", "throws", "items"}

IdleRepair == [pc |-> "idle", todo |-> << >>, attempted |-> << >>]

IdleCleanup == [pc |-> "idle", postIds |-> {}]

\* a post the scraper discovered: no cover yet
ScrapedPost(count) ==
  [creator_username |-> Username, cover_image_url |-> NullUrl, image_count |-> count]

\* the posts and images rows of post p before any repair:
\*   "bare"    discovered by the scraper, no image row
\*   "scraped" discovered by the scraper with one image (the URL of the first
\*             remote item, an id of its own, no hash)
\*   "synced"  mirrored by a sync (both remote items), plus two scraper rows
\*             (one repeating the URL of the first item, one with a URL of
\*             its own) and a row of an item the remote no longer lists
RepairKinds == {"bare", "scraped", "synced"}

KindPost(p, kind) ==
  CASE kind = "bare" -> ScrapedPost(0)
    [] kind = "scraped" -> ScrapedPost(1)
    [] kind = "synced" -> [creator_username |-> Username,
                           cover_image_url |-> ApiItems(p)[1].url,
                           image_count |-> 5]

KindImages(p, kind) ==
  CASE kind = "bare" -> { }
    [] kind = "scraped" ->
         { [id |-> 10 * p + 5, post_id |-> p, url |-> 10 * p + 1, hash |-> NullHash] }
    [] kind = "synced" ->
         { [id |-> 10 * p + 1, post_id |-> p, url |-> 10 * p + 1, hash |-> 10 * p + 1],
           [id |-> 10 * p + 2, post_id |-> p, url |-> 10 * p + 2, hash |-> 10 * p + 2],
           [id |-> 10 * p + 5, post_id |-> p, url |-> 10 * p + 1, hash |-> NullHash],
           [id |-> 10 * p + 6, post_id |-> p, url |-> 10 * p + 6, hash |-> NullHash],
           [id |-> 10 * p + 7, post_id |-> p, url |-> 10 * p + 7, hash |-> 10 * p + 7] }

\* the second remote item of post 3, stored under the post of the other
\* creator
StrayImage ==
  [id |-> ApiItems(3)[2].id, post_id |-> ForeignPost, url |-> ApiItems(3)[2].url,
   hash |-> ApiItems(3)[2].hash]

\* the posts table: the three posts of the creator and a post of another one
RepairStorePosts(kinds) ==
  [p \in RepairPosts \cup {ForeignPost} |->
     IF p = ForeignPost
       THEN [creator_username |-> "bob", cover_image_url |-> NullUrl,
             image_count |-> 0]
       ELSE KindPost(p, kinds[p])]

RepairStoreImages(kinds) ==
  LET rs == UNION { KindImages(p, kinds[p]) : p \in RepairPosts }
              \cup (IF kinds[3] = "synced" THEN { } ELSE { StrayImage })
  IN [id \in { r.id : r \in rs } |->
        LET r == CHOOSE r \in rs : r.id = id
        IN [post_id |-> r.post_id, url |-> r.url, hash |-> r.hash]]

\* posts.select('post_id').eq('creator_username', username).is('cover_image_url', null)
IncompletePosts(ps) ==
  { p \in DOMAIN ps : ps[p].creator_username = Username
                        /\ ps[p].cover_image_url = NullUrl }

\* the rows of the result, in the order of the table
RECURSIVE Ascending(_)
Ascending(set) ==
  IF set = {} THEN << >>
  ELSE LET least == CHOOSE x \in set : \A y \in set : x <= y
       IN << least >> \o Ascending(set \ {least})

\* posts.update({cover_image_url, image_count: data.items.length, ..})
RepairedPost(row, items) ==
  [row EXCEPT !.cover_image_url = items[1].url, !.image_count = Len(items)]

\* handleSyncImages step 2: images.select(..).eq('post_id', postId)
ImagesOfPost(imgs, p) ==
  [i \in { j \in DOMAIN imgs : imgs[j].post_id = p } |-> imgs[i]]

\* (variant: of the rows sharing a URL, the one with the highest id kept)
DuplicateIdsKeepHighest(db) ==
  { i \in DOMAIN db : \E j \in DOMAIN db : db[j].url = db[i].url /\ j > i }

\* handleSyncImages step 3: of the rows of the post sharing a URL, all but
\* the one with the lowest id
DuplicateIds(db) ==
  { i \in DOMAIN db : \E j \in DOMAIN db : db[j].url = db[i].url /\ j < i }

\* step 5: rows with a hash whose URL and id the remote does not list
ExtraImageIds(db, api) ==
  { i \in DOMAIN db :
      /\ db[i].hash # NullHash
      /\ \A k \in 1..Len(api) : api[k].url # db[i].url /\ api[k].id # i }

\* step 5: remote items whose URL and id the post does not have
MissingImages(db, api) ==
  SelectSeq(api, LAMBDA img :
    /\ \A i \in DOMAIN db : db[i].url # img.url
    /\ img.id \notin DOMAIN db)

\* apiData.items || [] of handleSyncImages for an answer with a body
AnswerItems(answer, p) == IF answer = "items" THEN ApiItems(p) ELSE << >>

\* steps 4 and 6: the rows left after the two delete statements
AfterDeletes(imgs, p, api) ==
  LET db == ImagesOfPost(imgs, p)
      gone == DuplicateIds(db) \cup ExtraImageIds(db, api)
  IN [i \in DOMAIN imgs \ gone |-> imgs[i]]

\* step 7: images.insert(imagesToInsert) is refused when an image_id is taken
InsertRefused(imgs, p, api) ==
  LET missing == MissingImages(ImagesOfPost(imgs, p), api)
  IN \E k \in 1..Len(missing) : missing[k].id \in DOMAIN AfterDeletes(imgs, p, api)

\* ------------------------------------------------------------------------
\* Favorite and hide: click handlers of one user on one post.  A click
\* handler runs while another one awaits the store.
\* ------------------------------------------------------------------------
Handlers == {"h1", "h2"}
MaxClicks == 3

IdleToggle == [pc |-> "idle", kind |-> "none", newState |-> FALSE, existing |-> FALSE]

\* post_interactions.insert({post_id, user_id, is_hidden: true}); the other
\* flag takes the column default
HiddenRow == [is_favorited |-> FALSE, is_hidden |-> TRUE]

\* post_interactions.insert({post_id, user_id, is_favorited: newState})
FavoriteRow(newState) == [is_favorited |-> newState, is_hidden |-> FALSE]

\* select('*').eq('post_id', ..).eq('user_id', ..).maybeSingle(): the row
\* when exactly one matches, otherwise no data
MaybeSingle(rs) == Len(rs) = 1

\* update(..).eq('post_id', ..).eq('user_id', ..): every matching row
UpdateFlag(rs, t) ==
  [i \in 1..Len(rs) |->
     IF t.kind = "hide" THEN [rs[i] EXCEPT !.is_hidden = TRUE]
     ELSE [rs[i] EXCEPT !.is_favorited = t.newState]]

\* if (existing) update else insert
WriteFlag(rs, t) ==
  IF t.existing THEN UpdateFlag(rs, t)
  ELSE Append(rs, IF t.kind = "hide" THEN HiddenRow ELSE FavoriteRow(t.newState))

\* ------------------------------------------------------------------------
\* State
\* ------------------------------------------------------------------------
VARIABLES
  source,          \* the remote content of the creator
  seed,            \* which store the behaviour started from
  creator,         \* the creators row of (username, user)
  posts,           \* posts rows, by post_id
  images,          \* images rows, by image_id
  clock,           \* latest time read with new Date()
  pc,              \* position of the syncCreator call
  run,             \* number of syncCreator calls started
  prevOutcome,     \* how the previous call ended
  isFullBackfill,  \* options.fullBackfill of the current call
  currentCursor, hasMore, requestCount, consecutiveFullyExistingPages,
  response,        \* size and continuation link of the last page received
  lastError,       \* the error caught last, NoError after a good response
  lastRequested,   \* cursor of the latest page request
  pagesFetched,    \* page responses received by the current call
  cursorAdvances,  \* times the current call moved on to a next-page cursor
  retried,         \* a request of the current call was answered 429/500
  storeFaults,     \* posts/images writes the store has refused so far
  invalidUpserts,  \* images upserts the current call issued with a null id
  otherWrites,     \* writes of other actors to the creators row so far
  user,            \* the logged-in user, NoUser when there is none
  rows,            \* the creators table: the row of every followed username
  today,           \* the time, in half days
  remoteNewest,    \* createdAt of the newest remote item of every username
  tasks,           \* the sync triggers of the application and their calls
  repair,          \* the syncIncompletePosts call: position, posts left, posts tried
  postApi,         \* how the per-post request of every post ends
  removedScraped,  \* null-hash image rows deleted by handleSyncImages so far
  interactions,    \* post_interactions rows of one (user, post) pair, oldest first
  toggles,         \* the toggleHide / toggleFavorite calls under way
  cleanup,         \* the handleCleanupPosts call: position and selected post ids
  deletedCovered   \* posts that had a cover when cleanup deleted them or their images

syncVars ==
  << source, seed, creator, posts, images, clock, pc, run, prevOutcome,
     isFullBackfill, currentCursor, hasMore, requestCount,
     consecutiveFullyExistingPages, response, lastError, lastRequested,
     pagesFetched, cursorAdvances, retried, storeFaults, invalidUpserts,
     otherWrites >>

appVars == << user, rows, today, remoteNewest, tasks >>

cleanupVars == << cleanup, deletedCovered >>

repairVars == << repair, postApi, removedScraped, cleanupVars >>

toggleVars == << interactions, toggles >>

vars == << syncVars, appVars, repairVars, toggleVars >>

\* every variable of the sync engine but the tables
runVars ==
  << source, seed, clock, pc, run, prevOutcome, isFullBackfill,
     currentCursor, hasMore, requestCount, consecutiveFullyExistingPages,
     response, lastError, lastRequested, pagesFetched, cursorAdvances, retried,
     storeFaults, invalidUpserts, otherWrites >>

\* every variable of the sync engine but the posts and images tables
engineVars == << creator, runVars >>

locals ==
  << currentCursor, hasMore, requestCount, consecutiveFullyExistingPages >>

store == << posts, images >>

InitEngine ==
  /\ source \in Sources
  /\ seed \in Seeds(source)
  /\ creator \in SeedCreators(source, seed)
  /\ clock = 0
  /\ pc = "idle"
  /\ run = 0
  /\ prevOutcome = "none"
  /\ isFullBackfill = FALSE
  /\ currentCursor = NoCursor
  /\ hasMore = TRUE
  /\ requestCount = 0
  /\ consecutiveFullyExistingPages = 0
  /\ response = [len |-> 0, hasNext |-> FALSE]
  /\ lastError = NoError
  /\ lastRequested = NoCursor
  /\ pagesFetched = 0
  /\ cursorAdvances = 0
  /\ retried = FALSE
  /\ storeFaults = 0
  /\ invalidUpserts = 0
  /\ otherWrites = 0

InitSync ==
  /\ InitEngine
  /\ posts = SeedPosts(source, seed)
  /\ images = SeedImages(source, seed)

\* the application at rest: nobody logged in, no trigger fired
InitAppIdle ==
  /\ user = NoUser
  /\ rows = [c \in Names |-> FollowedRow("u1", "completed", 0)]
  /\ today = 0
  /\ remoteNewest = [c \in Names |-> 0]
  /\ tasks = [t \in Slots |-> IdleTask]

\* no repair under way
InitCleanupIdle ==
  /\ cleanup = IdleCleanup
  /\ deletedCovered = {}

InitRepairIdle ==
  /\ repair = IdleRepair
  /\ postApi = [p \in RepairPosts |-> "items"]
  /\ removedScraped = {}
  /\ InitCleanupIdle

\* no interaction stored, no toggle under way
InitToggleIdle ==
  /\ interactions = << >>
  /\ toggles = [t \in Handlers |-> IdleToggle]

Init == InitSync /\ InitAppIdle /\ InitRepairIdle /\ InitToggleIdle

\* ------------------------------------------------------------------------
\* syncCreator
\* ------------------------------------------------------------------------
\* entry: read creatorInfo, set sync_status 'syncing', initialise the locals
\* (explored: a first call with either option, then non-backfill re-checks
\* after a call that resolved, as the background sync issues them)
Start ==
  /\ pc \in {"idle", "resolved"}
  /\ run < MaxRuns
  /\ \E fb \in (IF run = 0 THEN BOOLEAN ELSE {FALSE}) : isFullBackfill' = fb
  /\ creator' = UpdateWhere(creator, [creator EXCEPT !.sync_status = "syncing"])
  /\ run' = run + 1
  /\ prevOutcome' = IF pc = "idle" THEN "none" ELSE pc
  /\ currentCursor' = NoCursor
  /\ hasMore' = TRUE
  /\ requestCount' = 0
  /\ consecutiveFullyExistingPages' = 0
  /\ response' = [len |-> 0, hasNext |-> FALSE]
  /\ lastError' = NoError
  /\ lastRequested' = NoCursor
  /\ pagesFetched' = 0
  /\ cursorAdvances' = 0
  /\ retried' = FALSE
  /\ invalidUpserts' = 0
  /\ pc' = "loop"
  /\ UNCHANGED << appVars, repairVars, toggleVars >>
  /\ UNCHANGED << source, seed, posts, images, clock, storeFaults, otherWrites >>

\* (variant: the status re-read before the first request only)
StatusCheckFirstOnly ==
  /\ pc = "loop"
  /\ hasMore /\ requestCount < maxRequests
  /\ IF requestCount = 0 /\ pagesFetched = 0 /\ IsCancelled(creator.sync_status)
       THEN /\ lastError' = SyncCancelled
            /\ pc' = "failed"
       ELSE /\ lastError' = NoError
            /\ pc' = "fetch"
  /\ UNCHANGED << appVars, repairVars, toggleVars >>
  /\ UNCHANGED << source, seed, creator, posts, images, clock, run, prevOutcome,
                  isFullBackfill, locals, response, lastRequested, pagesFetched,
                  cursorAdvances, retried, storeFaults, invalidUpserts,
                  otherWrites >>

\* while (hasMore && requestCount < maxRequests) { status check ...
StatusCheck ==
  /\ pc = "loop"
  /\ hasMore /\ requestCount < maxRequests
  /\ IF IsCancelled(creator.sync_status)
       THEN /\ lastError' = SyncCancelled
            /\ pc' = "failed"
       ELSE /\ lastError' = NoError
            /\ pc' = "fetch"
  /\ UNCHANGED << appVars, repairVars, toggleVars >>
  /\ UNCHANGED << source, seed, creator, posts, images, clock, run, prevOutcome,
                  isFullBackfill, locals, response, lastRequested, pagesFetched,
                  cursorAdvances, retried, storeFaults, invalidUpserts,
                  otherWrites >>

\* the while condition fails
LoopExit ==
  /\ pc = "loop"
  /\ ~(hasMore /\ requestCount < maxRequests)
  /\ pc' = "finish"
  /\ UNCHANGED << appVars, repairVars, toggleVars >>
  /\ UNCHANGED << source, seed, creator, posts, images, clock, run, prevOutcome,
                  isFullBackfill, locals, response, lastError, lastRequested,
                  pagesFetched, cursorAdvances, retried, storeFaults, invalidUpserts,
                  otherWrites >>

\* fetchImagesByUsername answers with a page; the page is reconciled
FetchPage ==
  /\ pc = "fetch"
  /\ \E resp \in { Respond(source, currentCursor) } :
     \E items \in { resp.items } :
     \E keys \in { PostKeys(items) } :
     LET postIds == { keys[i] : i \in 1..Len(keys) }
         imageIds == { items[i].id : i \in 1..Len(items) }
     IN
     /\ lastRequested' = currentCursor
     /\ pagesFetched' = pagesFetched + 1
     /\ lastError' = NoError
     /\ response' = [len |-> Len(items), hasNext |-> resp.nextPage.present]
     /\ IF Len(items) = 0
          THEN /\ pc' = "finish"
               /\ UNCHANGED << creator, posts, images, locals, cursorAdvances,
                               storeFaults, invalidUpserts >>
          ELSE \E failPosts \in SUBSET (FailablePosts \cap postIds),
                  failImages \in SUBSET (FailableImages \cap imageIds) :
                 \E saved \in { SavePage(posts, images, items, failPosts, failImages) } :
                 LET faults == Cardinality(failPosts) + Cardinality(failImages)
                     allExisting == saved.existing = Len(keys) /\ Len(keys) > 0
                     consecutive == NextConsecutive(allExisting,
                                                    consecutiveFullyExistingPages)
                     cursorValue == ExtractCursor(resp.nextPage)
                 IN
                 /\ storeFaults + faults <= MaxStoreFaults
                 /\ storeFaults' = storeFaults + faults
                 /\ invalidUpserts' = invalidUpserts + saved.invalid
                 /\ posts' = saved.posts
                 /\ images' = saved.images
                 /\ consecutiveFullyExistingPages' = consecutive
                 /\ IF allExisting
                       /\ ShouldStop(isFullBackfill, consecutive, resp.nextPage.present)
                      THEN /\ hasMore' = FALSE
                           /\ pc' = "finish"
                           /\ UNCHANGED << creator, currentCursor, requestCount,
                                           cursorAdvances >>
                      ELSE /\ creator' =
                                UpdateWhere(creator,
                                  [creator EXCEPT
                                     !.last_cursor = IF cursorValue # NoCursor
                                                       THEN cursorValue ELSE @,
                                     !.total_posts = PostCount(saved.posts)])
                           /\ hasMore' = HasMore(resp.nextPage, Len(items))
                           /\ currentCursor' = cursorValue
                           /\ cursorAdvances' = IF cursorValue # NoCursor
                                                  THEN cursorAdvances + 1
                                                  ELSE cursorAdvances
                           /\ requestCount' = requestCount + 1
                           /\ pc' = "loop"
  /\ UNCHANGED << appVars, repairVars, toggleVars >>
  /\ UNCHANGED << source, seed, clock, run, prevOutcome, isFullBackfill,
                  retried, otherWrites >>

\* (variant: a retried request counted against the request cap)
FetchErrorCounted ==
  /\ pc = "fetch"
  /\ requestCount < MaxDisturbedRequests
  /\ \E msg \in FetchErrors :
       /\ lastError' = msg
       /\ IF Includes429(msg) \/ Includes500(msg)
            THEN /\ pc' = "loop"
                 /\ retried' = TRUE
                 /\ requestCount' = requestCount + 1
            ELSE /\ pc' = "failed"
                 /\ retried' = retried
                 /\ requestCount' = requestCount
  /\ lastRequested' = currentCursor
  /\ UNCHANGED << appVars, repairVars, toggleVars >>
  /\ UNCHANGED << source, seed, creator, posts, images, clock, run, prevOutcome,
                  isFullBackfill, currentCursor, hasMore,
                  consecutiveFullyExistingPages, response, pagesFetched,
                  cursorAdvances, storeFaults, invalidUpserts,
                  otherWrites >>

\* fetchImagesByUsername throws; the inner catch classifies the message
FetchError ==
  /\ pc = "fetch"
  /\ requestCount < MaxDisturbedRequests
  /\ \E msg \in FetchErrors :
       /\ lastError' = msg
       /\ IF Includes429(msg) \/ Includes500(msg)
            THEN /\ pc' = "loop"
                 /\ retried' = TRUE
            ELSE /\ pc' = "failed"
                 /\ retried' = retried
  /\ lastRequested' = currentCursor
  /\ UNCHANGED << appVars, repairVars, toggleVars >>
  /\ UNCHANGED << source, seed, creator, posts, images, clock, run, prevOutcome,
                  isFullBackfill, locals, response, pagesFetched, cursorAdvances,
                  storeFaults, invalidUpserts,
                  otherWrites >>

\* after the loop: authoritative count, completion update
Complete ==
  /\ pc = "finish"
  /\ \E now \in clock..MaxClock :
       /\ clock' = now
       /\ creator' = UpdateWhere(creator, CompletedRow(creator, PostCount(posts), now))
  /\ pc' = "resolved"
  /\ UNCHANGED << appVars, repairVars, toggleVars >>
  /\ UNCHANGED << source, seed, posts, images, run, prevOutcome, isFullBackfill,
                  locals, response, lastError, lastRequested, pagesFetched,
                  cursorAdvances, retried, storeFaults, invalidUpserts,
                  otherWrites >>

\* outer catch: error status, rethrow
OuterCatch ==
  /\ pc = "failed"
  /\ creator' = UpdateWhere(creator, ErrorRow(creator))
  /\ pc' = "rejected"
  /\ UNCHANGED << appVars, repairVars, toggleVars >>
  /\ UNCHANGED << source, seed, posts, images, clock, run, prevOutcome,
                  isFullBackfill, locals, response, lastError, lastRequested,
                  pagesFetched, cursorAdvances, retried, storeFaults, invalidUpserts,
                  otherWrites >>

\* ------------------------------------------------------------------------
\* Other actors writing the creators row
\* ------------------------------------------------------------------------
\* Settings: the sync button of a creator shown as syncing stops the sync
handleResetSync ==
  /\ creator.sync_status = "syncing"
  /\ requestCount < MaxDisturbedRequests
  /\ otherWrites < MaxOtherWrites
  /\ otherWrites' = otherWrites + 1
  /\ creator' = UpdateWhere(creator, [creator EXCEPT !.sync_status = "completed"])
  /\ UNCHANGED << appVars, repairVars, toggleVars >>
  /\ UNCHANGED << source, seed, posts, images, clock, pc, run, prevOutcome,
                  isFullBackfill, locals, response, lastError, lastRequested,
                  pagesFetched, cursorAdvances, retried, storeFaults,
                  invalidUpserts >>

\* ------------------------------------------------------------------------
\* The application's sync triggers.  A call of syncCreator is followed here
\* by its writes to the creators row and its page requests only.
\* ------------------------------------------------------------------------
\* App.startBackgroundSync, up to the answer of needsSync()
startBackgroundSync(t) ==
  /\ tasks[t].pc = "idle"
  /\ \E r \in { needsSync(user, rows, today) } :
       tasks' = [tasks EXCEPT ![t].shouldSync = IF r THEN "yes" ELSE "no",
                              ![t].pc = IF r THEN "query" ELSE "done"]
  /\ UNCHANGED << user, rows, today, remoteNewest >>
  /\ UNCHANGED << syncVars, repairVars, toggleVars >>

\* syncAllCreators, up to its selection of the creators to sync
syncAllCreators(t) ==
  /\ tasks[t].pc = "query"
  /\ IF user = NoUser
       THEN tasks' = [tasks EXCEPT ![t].pc = "rejected"]
       ELSE \E sel \in { SelectedCreators(user, rows, today) } :
              tasks' = [tasks EXCEPT ![t].queue = InOrder(sel),
                                     ![t].pc = IF sel = {} THEN "done" ELSE "next"]
  /\ UNCHANGED << user, rows, today, remoteNewest >>
  /\ UNCHANGED << syncVars, repairVars, toggleVars >>

\* CreatorFeed.handleSync: sets the creator 'pending', then calls syncCreator
handleSync(c) ==
  /\ tasks["feed"].pc = "idle"
  /\ user # NoUser
  /\ rows[c].owner = user
  /\ rows' = [rows EXCEPT ![c].sync_status = "pending"]
  /\ tasks' = [tasks EXCEPT !["feed"].queue = << c >>, !["feed"].pc = "next"]
  /\ UNCHANGED << user, today, remoteNewest >>
  /\ UNCHANGED << syncVars, repairVars, toggleVars >>

\* syncCreator is entered for the next creator: sync_status 'syncing'
CallStart(t) ==
  /\ tasks[t].pc = "next"
  /\ rows' = [rows EXCEPT ![Head(tasks[t].queue)].sync_status = "syncing"]
  /\ tasks' = [tasks EXCEPT ![t].pc = "loop", ![t].pages = 0]
  /\ UNCHANGED << user, today, remoteNewest >>
  /\ UNCHANGED << syncVars, repairVars, toggleVars >>

\* one iteration of the loop: status check, then a page request
CallPage(t) ==
  /\ tasks[t].pc = "loop"
  /\ IF IsCancelled(rows[Head(tasks[t].queue)].sync_status)
       THEN tasks' = [tasks EXCEPT ![t].pc = "failed"]
       ELSE \E more \in BOOLEAN :
              tasks' = [tasks EXCEPT
                          ![t].pages = @ + 1,
                          ![t].pc = IF more /\ tasks[t].pages + 1 < MaxRunPages
                                      THEN "loop" ELSE "finish"]
  /\ UNCHANGED << user, rows, today, remoteNewest >>
  /\ UNCHANGED << syncVars, repairVars, toggleVars >>

\* the call completes; syncAllCreators moves on to its next creator
CallComplete(t) ==
  /\ tasks[t].pc = "finish"
  /\ rows' = [rows EXCEPT ![Head(tasks[t].queue)].sync_status = "completed",
                          ![Head(tasks[t].queue)].last_synced_at = today]
  /\ tasks' = [tasks EXCEPT ![t].queue = Tail(@),
                            ![t].pc = IF Len(tasks[t].queue) > 1
                                        THEN "next" ELSE "done"]
  /\ UNCHANGED << user, today, remoteNewest >>
  /\ UNCHANGED << syncVars, repairVars, toggleVars >>

\* the call throws: sync_status 'error', and the caller's loop is left
CallCatch(t) ==
  /\ tasks[t].pc = "failed"
  /\ rows' = [rows EXCEPT ![Head(tasks[t].queue)].sync_status = "error"]
  /\ tasks' = [tasks EXCEPT ![t].pc = "rejected"]
  /\ UNCHANGED << user, today, remoteNewest >>
  /\ UNCHANGED << syncVars, repairVars, toggleVars >>

\* half a day passes
Tick ==
  /\ today < MaxToday
  /\ today' = today + 1
  /\ UNCHANGED << user, rows, remoteNewest, tasks >>
  /\ UNCHANGED << syncVars, repairVars, toggleVars >>

AppInit ==
  /\ InitSync
  /\ InitRepairIdle
  /\ InitToggleIdle
  /\ source = EmptySource
  /\ creator.present
  /\ user \in {"u1", NoUser}
  /\ rows \in { [c \in Names |-> IF c = "a" THEN ra ELSE rb] :
                  ra \in { FollowedRow("u1", st, at) :
                             st \in {"pending", "completed"}, at \in {NullTime, 0} },
                  rb \in { FollowedRow(o, "completed", 0) : o \in Users } }
  /\ today = 0
  /\ remoteNewest \in { [c \in Names |-> IF c = "a" THEN x ELSE 0] : x \in {0, 1} }
  /\ tasks = [t \in Slots |-> IdleTask]

AppNext ==
  \/ \E t \in Background : startBackgroundSync(t)
  \/ \E t \in Background : syncAllCreators(t)
  \/ \E c \in Names : handleSync(c)
  \/ \E t \in Slots : CallStart(t)
  \/ \E t \in Slots : CallPage(t)
  \/ \E t \in Slots : CallComplete(t)
  \/ \E t \in Slots : CallCatch(t)
  \/ Tick

AppSpec == AppInit /\ [][AppNext]_vars

\* ------------------------------------------------------------------------
\* Per-post repair
\* ------------------------------------------------------------------------

\* syncIncompletePosts: the query for the posts of the creator without a
\* cover; nothing to do when there is none
RepairSelect ==
  /\ repair.pc = "idle"
  /\ \E todo \in { Ascending(IncompletePosts(posts)) } :
       repair' = [pc |-> IF todo = << >> THEN "resolved" ELSE "loop",
                  todo |-> todo, attempted |-> << >>]
  /\ UNCHANGED << posts, images, postApi, removedScraped, engineVars, appVars, toggleVars,
                  cleanupVars >>

\* the query fails: `throw error`
RepairSelectFails ==
  /\ repair.pc = "idle"
  /\ repair' = [repair EXCEPT !.pc = "rejected"]
  /\ UNCHANGED << posts, images, postApi, removedScraped, engineVars, appVars, toggleVars,
                  cleanupVars >>

\* a per-post failure ends the call
RepairPostAborting ==
  /\ repair.pc = "loop"
  /\ \E p \in { Head(repair.todo) } :
       \E rest \in { Tail(repair.todo) } :
         /\ repair' = [pc |-> IF postApi[p] = "throws" THEN "rejected"
                              ELSE IF rest = << >> THEN "resolved" ELSE "loop",
                        todo |-> rest,
                        attempted |-> Append(repair.attempted, p)]
         /\ IF postApi[p] = "items" /\ p \in DOMAIN posts
              THEN /\ posts' = [posts EXCEPT ![p] = RepairedPost(@, ApiItems(p))]
                   /\ images' = UpsertImages(images, p, ApiItems(p), {})
              ELSE UNCHANGED << posts, images >>
  /\ UNCHANGED << postApi, removedScraped, engineVars, appVars, toggleVars,
                  cleanupVars >>

\* one turn of the loop over the incomplete posts: the request; a response
\* that is not ok and an empty result `continue`, an exception is caught;
\* otherwise the post row is completed and every item upserted (the update
\* matches no row and the images are refused for want of their post when
\* the post has been deleted meanwhile)
RepairPost ==
  /\ repair.pc = "loop"
  /\ \E p \in { Head(repair.todo) } :
       \E rest \in { Tail(repair.todo) } :
         /\ repair' = [pc |-> IF rest = << >> THEN "resolved" ELSE "loop",
                        todo |-> rest,
                        attempted |-> Append(repair.attempted, p)]
         /\ IF postApi[p] = "items" /\ p \in DOMAIN posts
              THEN /\ posts' = [posts EXCEPT ![p] = RepairedPost(@, ApiItems(p))]
                   /\ images' = UpsertImages(images, p, ApiItems(p), {})
              ELSE UNCHANGED << posts, images >>
  /\ UNCHANGED << postApi, removedScraped, engineVars, appVars, toggleVars,
                  cleanupVars >>

\* PostDetail.handleSyncImages of post p, steps 1 to 8. A response that is
\* not ok and an exception leave the store alone; a refused insert throws
\* after the deletions and before the count is written.
handleSyncImages(p) ==
  /\ p \in DOMAIN posts
  /\ postApi[p] \in {"items", "empty"}
  /\ \E api \in { AnswerItems(postApi[p], p) } :
     \E db \in { ImagesOfPost(images, p) } :
     \E kept \in { AfterDeletes(images, p, api) } :
       /\ removedScraped' = removedScraped
            \cup { i \in DOMAIN db \ DOMAIN kept : db[i].hash = NullHash }
       /\ IF InsertRefused(images, p, api)
            THEN /\ images' = kept
                 /\ UNCHANGED posts
            ELSE \E final \in { UpsertImages(kept, p, MissingImages(db, api), {}) } :
                   /\ images' = final
                   /\ posts' = [posts EXCEPT ![p].image_count = ImageCountOf(final, p)]
  /\ UNCHANGED << repair, postApi, engineVars, appVars, toggleVars,
                  cleanupVars >>

\* Settings.handleCleanupPosts: the count of the posts without cover and the
\* confirmation dialog
handleCleanupPosts ==
  /\ cleanup.pc = "idle"
  /\ \E confirmed \in BOOLEAN :
       cleanup' = [cleanup EXCEPT !.pc = IF IncompletePosts(posts) # {} /\ confirmed
                                          THEN "confirmed" ELSE "done"]
  /\ UNCHANGED << posts, images, repair, postApi, removedScraped, deletedCovered,
                  engineVars, appVars, toggleVars >>

\* the ids of the posts to delete; none left is an error
CleanupSelect ==
  /\ cleanup.pc = "confirmed"
  /\ \E ids \in { IncompletePosts(posts) } :
       cleanup' = [pc |-> IF ids = {} THEN "done" ELSE "selected", postIds |-> ids]
  /\ UNCHANGED << posts, images, repair, postApi, removedScraped, deletedCovered,
                  engineVars, appVars, toggleVars >>

\* images.delete().in('post_id', postIds)
CleanupDeleteImages ==
  /\ cleanup.pc = "selected"
  /\ images' = [i \in { j \in DOMAIN images : images[j].post_id \notin cleanup.postIds }
                  |-> images[i]]
  /\ deletedCovered' = deletedCovered \cup
       { p \in cleanup.postIds \cap DOMAIN posts :
           posts[p].cover_image_url # NullUrl /\ ImageCountOf(images, p) > 0 }
  /\ cleanup' = [cleanup EXCEPT !.pc = "images"]
  /\ UNCHANGED << posts, repair, postApi, removedScraped, engineVars, appVars,
                  toggleVars >>

\* posts.delete().in('post_id', postIds), then the creator's total_posts
CleanupDeletePosts ==
  /\ cleanup.pc = "images"
  /\ \E left \in { [p \in DOMAIN posts \ cleanup.postIds |-> posts[p]] } :
       /\ posts' = left
       /\ creator' = [creator EXCEPT !.total_posts = PostCount(left)]
  /\ deletedCovered' = deletedCovered \cup
       { p \in cleanup.postIds \cap DOMAIN posts : posts[p].cover_image_url # NullUrl }
  /\ cleanup' = [cleanup EXCEPT !.pc = "done"]
  /\ UNCHANGED << images, repair, postApi, removedScraped, runVars, appVars,
                  toggleVars >>

\* the store before a repair: every mix of the three posts, every answer of
\* the remote
RepairInit ==
  /\ InitEngine
  /\ source = EmptySource
  /\ creator.present
  /\ InitAppIdle
  /\ \E kinds \in [RepairPosts -> RepairKinds] :
       /\ posts = RepairStorePosts(kinds)
       /\ images = RepairStoreImages(kinds)
  /\ repair = IdleRepair
  /\ postApi \in [RepairPosts -> PostAnswers]
  /\ removedScraped = {}
  /\ InitCleanupIdle
  /\ InitToggleIdle

RepairNext ==
  \/ RepairSelect
  \/ RepairSelectFails
  \/ RepairPost
  \/ \E p \in RepairPosts : handleSyncImages(p)
  \/ handleCleanupPosts
  \/ CleanupSelect
  \/ CleanupDeleteImages
  \/ CleanupDeletePosts

RepairSpec == RepairInit /\ [][RepairNext]_vars

\* ------------------------------------------------------------------------
\* Favorite and hide
\* ------------------------------------------------------------------------
Clicks == Cardinality({ t \in Handlers : toggles[t].pc # "idle" }) + Len(interactions)

\* toggleHide up to the answer of its select
toggleHide(t) ==
  /\ toggles[t].pc = "idle"
  /\ user # NoUser
  /\ Clicks < MaxClicks
  /\ toggles' = [toggles EXCEPT ![t] = [pc |-> "write", kind |-> "hide",
                                        newState |-> TRUE,
                                        existing |-> MaybeSingle(interactions)]]
  /\ UNCHANGED << interactions, syncVars, appVars, repairVars >>

\* toggleFavorite up to the answer of its select
toggleFavorite(t, currentState) ==
  /\ toggles[t].pc = "idle"
  /\ user # NoUser
  /\ Clicks < MaxClicks
  /\ toggles' = [toggles EXCEPT ![t] = [pc |-> "write", kind |-> "favorite",
                                        newState |-> ~currentState,
                                        existing |-> MaybeSingle(interactions)]]
  /\ UNCHANGED << interactions, syncVars, appVars, repairVars >>

\* the update or insert of the handler, and its end
ToggleWrite(t) ==
  /\ toggles[t].pc = "write"
  /\ interactions' = WriteFlag(interactions, toggles[t])
  /\ toggles' = [toggles EXCEPT ![t] = IdleToggle]
  /\ UNCHANGED << syncVars, appVars, repairVars >>

ToggleInit ==
  /\ InitSync
  /\ source = EmptySource
  /\ creator.present
  /\ InitRepairIdle
  /\ user = "u1"
  /\ rows = [c \in Names |-> FollowedRow("u1", "completed", 0)]
  /\ today = 0
  /\ remoteNewest = [c \in Names |-> 0]
  /\ tasks = [t \in Slots |-> IdleTask]
  /\ interactions \in { << >>, << HiddenRow >>, << FavoriteRow(TRUE) >> }
  /\ toggles = [t \in Handlers |-> IdleToggle]

ToggleNext ==
  \/ \E t \in Handlers : toggleHide(t)
  \/ \E t \in Handlers : \E currentState \in BOOLEAN : toggleFavorite(t, currentState)
  \/ \E t \in Handlers : ToggleWrite(t)

ToggleSpec == ToggleInit /\ [][ToggleNext]_vars

RunStep ==
  StatusCheck \/ LoopExit \/ FetchPage \/ FetchError \/ Complete \/ OuterCatch

Next ==
  \/ Start
  \/ StatusCheck
  \/ LoopExit
  \/ FetchPage
  \/ FetchError
  \/ Complete
  \/ OuterCatch
  \/ handleResetSync

Spec == Init /\ [][Next]_vars

\* the event loop resumes a suspended call: a started run keeps taking steps
ShortInit == Init /\ source \in {SmallSource, EmptySource}

FairSpec == ShortInit /\ [][Next]_vars /\ WF_vars(RunStep)

TypeOK ==
  /\ pc \in {"idle", "loop", "fetch", "finish", "failed", "resolved", "rejected"}
  /\ creator.sync_status \in {"pending", "syncing", "completed", "error", "undefined"}
  /\ creator.present = (creator.sync_status # "undefined")
  /\ requestCount \in 0..maxRequests
  /\ run \in 0..MaxRuns

\* ------------------------------------------------------------------------
\* Properties
\* ------------------------------------------------------------------------
Running == {"loop", "fetch", "finish", "failed"}
Ended == {"resolved", "rejected"}

FetchFailed == lastError.kind \in {"http", "network"}

\* the last page received shows the source exhausted
Exhausted(r) == r.len = 0 \/ (~r.hasNext /\ r.len < PageLimit)

PostsUpTo(src, k) == UNION { PagePosts(src, p) : p \in 1..k }

\* every page but the last links to its successor and the last one is short,
\* so that a run receives the pages of the source one after the other
WellLinked(src) ==
  \A p \in 1..Len(src) :
    IF p < Len(src)
      THEN src[p].link = "cursor"
      ELSE src[p].link = "none" /\ Len(PageItems(src, p)) < PageLimit

\* the first k pages hold only posts the store lacks, the later pages only
\* posts it holds with their images
OnlyNewThenExisting(src, sd) ==
  /\ WellLinked(src)
  /\ sd.kind = "synced"
  /\ PostsUpTo(src, sd.k) \cap PostsAfter(src, sd.k) = {}

\* no request failed, no store write was refused, nobody else wrote the row
Nominal == ~retried /\ storeFaults = 0 /\ otherWrites = 0

\* C1: a run that ends with the SYNC_CANCELLED signal never leaves the
\* creator's sync_status at 'error'.
C1_CancellationNotError ==
  (pc = "rejected" /\ lastError = SyncCancelled) => creator.sync_status # "error"

\* C2: when a run is rejected with a fatal fetch error and no other actor
\* wrote the creator row, sync_status is 'error' at the time the error has
\* been rethrown.
C2_FatalErrorPersisted ==
  (pc = "rejected" /\ FetchFailed /\ otherWrites = 0)
    => creator.sync_status = "error"

C2_Witness ==
  /\ pc = "rejected"
  /\ lastError = HttpError(502, {})
  /\ otherWrites = 0
  /\ requestCount > 0
  /\ creator.sync_status = "error"

\* C3: a run that left the fetch loop without cancellation or fatal error
\* has resolved with sync_status 'completed' and last_synced_at equal to the
\* time read at completion, when no other actor wrote the creator row.
C3_CompletedOnLoopExit ==
  (pc = "resolved" /\ otherWrites = 0)
    => /\ creator.sync_status = "completed"
       /\ creator.last_synced_at = clock
       /\ creator.total_posts = PostCount(posts)

C3_Witness ==
  /\ pc = "resolved"
  /\ otherWrites = 0
  /\ requestCount = maxRequests
  /\ creator.sync_status = "completed"
  /\ creator.last_synced_at = clock
  /\ clock > 0

\* C4: every started run eventually resolves or throws, whatever the remote
\* source answers.
C4_RunTerminates == (pc \in Running) ~> (pc \in Ended)

\* C5: a 429 answer leaves the current cursor, the request counter, the
\* persisted last_cursor and the consecutive-page counter as they were, and
\* the next request carries the cursor of the rate-limited one.
C5_RateLimitKeepsProgress ==
  [][ /\ (pc = "fetch" /\ lastError'.status = 429)
         => /\ pc' = "loop"
            /\ currentCursor' = currentCursor
            /\ requestCount' = requestCount
            /\ creator'.last_cursor = creator.last_cursor
            /\ consecutiveFullyExistingPages' = consecutiveFullyExistingPages
            /\ lastRequested' = currentCursor
      /\ (pc = "loop" /\ lastError.status = 429 /\ pc' = "fetch")
         => currentCursor' = lastRequested
    ]_vars

C5_Witness ==
  /\ pc = "loop"
  /\ lastError = HttpError(429, {})
  /\ requestCount > 0
  /\ currentCursor # NoCursor
  /\ lastRequested = currentCursor
  /\ creator.sync_status = "syncing"

\* C6 as stated: every 5xx answer is retried and never aborts the run, and
\* every failure that is neither a 429 nor a 5xx answer aborts it.
C6_Every5xxTransient ==
  /\ (lastError.kind = "http" /\ lastError.status \in 500..599)
       => pc \notin {"failed", "rejected"}
  /\ (FetchFailed /\ lastError.status \notin ({429} \cup 500..599))
       => pc \in {"failed", "rejected"}

\* C6 amended: a fetch failure is retried (same cursor, same request counter,
\* creator row untouched, run not aborted) exactly when its message contains
\* '429' or '500'; every other failure, a 502 included, aborts the run.
C6_TransientIffMessageHas429Or500 ==
  [][ (pc = "fetch" /\ lastError' # NoError)
        => IF \/ lastError'.status \in {429, 500}
              \/ lastError'.mentions \cap {429, 500} # {}
             THEN /\ pc' = "loop"
                  /\ currentCursor' = currentCursor
                  /\ requestCount' = requestCount
                  /\ creator' = creator
             ELSE pc' = "failed"
    ]_vars

C6_Witness ==
  /\ pc = "loop"
  /\ lastError = HttpError(500, {})
  /\ requestCount > 0
  /\ lastRequested = currentCursor
  /\ creator.sync_status = "syncing"

\* C7 as stated: a full backfill reports 'completed' only after the source
\* is exhausted.
C7_BackfillCompletesOnlyExhausted ==
  (pc = "resolved" /\ isFullBackfill) => Exhausted(response)

\* C7 amended: a full backfill leaves the loop for completion only after the
\* source is exhausted or the cap of 50 requests is reached, never because
\* pages were fully pre-existing.
C7_BackfillStopsExhaustedOrCapped ==
  (pc \in {"finish", "resolved"} /\ isFullBackfill)
    => (Exhausted(response) \/ requestCount >= maxRequests)

C7_Witness ==
  /\ pc = "resolved"
  /\ isFullBackfill
  /\ consecutiveFullyExistingPages > StopThreshold
  /\ Exhausted(response)
  /\ requestCount < maxRequests

\* C8: with K pages of new posts followed by pages of posts already stored
\* with images, a non-backfill run receives at most K+2 pages.
C8_StopsWithinTwoPages ==
  (run = 1 /\ ~isFullBackfill /\ OnlyNewThenExisting(source, seed))
    => pagesFetched <= seed.k + 2

C8_Witness ==
  /\ run = 1
  /\ ~isFullBackfill
  /\ source = SmallSource
  /\ seed = [k |-> 1, kind |-> "synced"]
  /\ pc = "resolved"
  /\ pagesFetched = 3
  /\ response.hasNext

FreshScenario ==
  /\ source = ScenarioSource
  /\ seed = [k |-> Len(ScenarioSource), kind |-> "synced"]
  /\ run = 1
  /\ pc = "resolved"
  /\ Nominal

\* C10 as stated: the 200/200/50 scenario ends after 3 page requests and 3
\* cursor advances with total_posts the number of distinct posts, 'completed'.
C10_ScenarioThreeAdvances ==
  FreshScenario
    => /\ pagesFetched = 3
       /\ cursorAdvances = 3
       /\ creator.total_posts = Cardinality(PostsAfter(ScenarioSource, 0))
       /\ creator.sync_status = "completed"

\* C10 amended: the scenario ends after 3 page requests and 2 cursor
\* advances (the third page has no next-page token; last_cursor stays at the
\* token of page 2), with total_posts the number of distinct posts, 'completed'.
C10_ScenarioTwoAdvances ==
  FreshScenario
    => /\ pagesFetched = 3
       /\ requestCount = 3
       /\ cursorAdvances = 2
       /\ creator.last_cursor = 2
       /\ currentCursor = NoCursor
       /\ creator.total_posts = Cardinality(PostsAfter(ScenarioSource, 0))
       /\ creator.sync_status = "completed"

C10_Witness ==
  /\ FreshScenario
  /\ pagesFetched = 3
  /\ Cardinality(DOMAIN images) = 450
  /\ creator.total_posts = 5

\* every post with a cover caches the number of its image rows
CountsAgree ==
  \A p \in DOMAIN posts :
    posts[p].cover_image_url # NullUrl
      => posts[p].image_count = ImageCountOf(images, p)

\* C11: after a syncCreator run completes, every post with a non-null cover
\* has image_count equal to the number of image rows of that post.
C11_NoImageCountDrift == (pc = "resolved") => CountsAgree

\* C12: after a syncCreator run completes, no two image rows share a URL.
C12_OneRowPerUrl ==
  (pc = "resolved")
    => Cardinality({ images[i].url : i \in DOMAIN images })
         = Cardinality(DOMAIN images)

\* C13: no images upsert is issued for an item whose id is null, and no
\* image row for it exists.
C13_InvalidIdDropped ==
  invalidUpserts = 0 /\ NullId \notin DOMAIN images

\* C14: a run for a username without a creators row of the acting user fails
\* with a condition other than the cancellation signal, requests no page and
\* writes no posts or images row.
C14_MissingRowFailsDistinctly ==
  (pc = "rejected" /\ ~creator.present)
    => /\ lastError # SyncCancelled
       /\ pagesFetched = 0
       /\ posts = SeedPosts(source, seed)
       /\ images = SeedImages(source, seed)

\* the slots whose syncCreator call for c is between entry and return
ActiveOn(c) ==
  { t \in Slots : tasks[t].pc \in {"loop", "finish", "failed"}
                    /\ Head(tasks[t].queue) = c }

\* C15: at most one syncCreator loop is active for a creator at any time.
C15_OneLoopPerCreator ==
  \A c \in Names : Cardinality(ActiveOn(c)) <= 1

\* C16: at most one syncCreator run started by syncAllCreators is in
\* progress at any time, however often startBackgroundSync was triggered.
C16_BackgroundRunsSequential ==
  Cardinality({ t \in Background : tasks[t].pc \in {"loop", "finish", "failed"} }) <= 1

\* a selected creator that is stale, not pending, and has no remote item
\* newer than its last sync
StaleUnchanged(c) ==
  /\ rows[c].sync_status # "pending"
  /\ rows[c].last_synced_at # NullTime
  /\ rows[c].last_synced_at < today - DayTicks
  /\ remoteNewest[c] <= rows[c].last_synced_at

\* C17: when syncAllCreators comes to a stale creator without new remote
\* items, it only stamps last_synced_at: sync_status is not set to 'syncing'
\* and the syncCreator loop is not entered.
C17_StaleUnchangedOnlyStamped ==
  [][ \A t \in Background :
        (tasks[t].pc = "next" /\ tasks'[t].pc # "next"
           /\ StaleUnchanged(Head(tasks[t].queue)))
          => /\ rows'[Head(tasks[t].queue)].sync_status # "syncing"
             /\ rows'[Head(tasks[t].queue)].last_synced_at = today
             /\ tasks'[t].pc # "loop"
    ]_vars

\* C18: needsSync answers true exactly when the current user owns a creator
\* that is pending, never synced, or synced more than 24 hours ago, which is
\* exactly when syncAllCreators would select a creator; it answers false
\* without a user, and writes nothing.
C18_NeedsSyncMatchesSelection ==
  [][ \A t \in Background :
        (tasks[t].pc = "idle" /\ tasks'[t].pc # "idle")
          => /\ tasks'[t].shouldSync \in {"yes", "no"}
             /\ (tasks'[t].shouldSync = "yes")
                  <=> /\ user # NoUser
                      /\ \E c \in Names :
                           /\ rows[c].owner = user
                           /\ \/ rows[c].sync_status = "pending"
                              \/ rows[c].last_synced_at = NullTime
                              \/ /\ rows[c].last_synced_at # NullTime
                                 /\ today - rows[c].last_synced_at > DayTicks
             /\ (user # NoUser)
                  => ((tasks'[t].shouldSync = "yes")
                        <=> (SelectedCreators(user, rows, today) # {}))
             /\ rows' = rows
    ]_vars

C18_Witness ==
  /\ user = "u1"
  /\ tasks["bg1"].shouldSync = "yes"
  /\ tasks["bg2"].shouldSync = "no"
  /\ rows["b"].owner = "u2"
  /\ today - rows["b"].last_synced_at > DayTicks

\* ------------------------------------------------------------------------
\* Per-post repair (RepairSpec)
\* ------------------------------------------------------------------------
Tried == { repair.attempted[i] : i \in 1..Len(repair.attempted) }

\* C19: syncIncompletePosts attempts every post of the creator that has a
\* null cover. When the call has resolved, every post of the creator still
\* without a cover was attempted (so a post whose request failed, came back
\* empty or threw was skipped, not forgotten, and the posts after it were
\* still processed), the posts were attempted in the order of the result,
\* every attempted post whose request returned items has its cover, and
\* the call rejects only when the initial query fails, before any post.
C19_EveryIncompletePostAttempted ==
  /\ repair.pc = "resolved" =>
        /\ IncompletePosts(posts) \subseteq Tried
        /\ \A p \in Tried \cap DOMAIN posts :
             postApi[p] = "items" => posts[p].cover_image_url # NullUrl
  /\ \A i, j \in 1..Len(repair.attempted) :
        i < j => repair.attempted[i] < repair.attempted[j]
  /\ repair.pc = "loop" => repair.todo # << >>
  /\ repair.pc = "rejected" => repair.attempted = << >>

\* three incomplete posts: the first answered with a response that is not
\* ok, the second with an exception, the third with items; the call
\* resolved and the third has its cover
C19_Witness ==
  /\ repair.pc = "resolved"
  /\ repair.attempted = << 1, 2, 3 >>
  /\ postApi[1] = "notok" /\ postApi[2] = "throws" /\ postApi[3] = "items"
  /\ posts[1].cover_image_url = NullUrl
  /\ posts[2].cover_image_url = NullUrl
  /\ posts[3].cover_image_url # NullUrl

\* C20: handleSyncImages never deletes an image row whose hash is null.
C20_ScrapedRowsSurvive ==
  removedScraped = {}

\* handleSyncImages of post p runs to its end in this step
SyncImagesCompletes(p) ==
  handleSyncImages(p) /\ ~InsertRefused(images, p, AnswerItems(postApi[p], p))

C22_OneInteractionRow ==
  Len(interactions) <= 1

\* ------------------------------------------------------------------------
\* syncCreator, continued (Spec)
\* ------------------------------------------------------------------------
\* C23: cancellation is noticed at the next status check.  Every page
\* request is entered by a status check that read 'syncing' or 'pending',
\* and a request is followed by a new status check before the next one: so
\* after another actor has written a different status the run issues at
\* most the one request whose check had already passed, and none after a
\* check that observed the changed status.
C23_CancelNoticedAtNextCheck ==
  [][/\ (pc' = "fetch" /\ pc # "fetch")
          => (pc = "loop" /\ ~IsCancelled(creator.sync_status))
     /\ (pc = "fetch" /\ pc' # pc)
          => pc' \in {"loop", "finish", "failed"}
     /\ (pc = "loop" /\ IsCancelled(creator.sync_status) /\ pc' # pc)
          => pc' \in {"failed", "finish"}]_vars

\* a run that had received a page was stopped by another actor and left
\* its loop with the cancellation signal
C23_Witness ==
  /\ creator.present
  /\ otherWrites > 0
  /\ pagesFetched >= 1
  /\ lastError = SyncCancelled
  /\ pc = "failed"

\* the mirror holds nothing of the creator yet
EmptyMirror == seed = [k |-> Len(source), kind |-> "synced"]

\* C24: after a fullBackfill run completes against an initially empty
\* mirror, with every store write succeeding and a source of fewer than 50
\* pages served one after the other, every item the remote returned (with
\* an id) is an image row under its post.
C24_BackfillPersistsEveryItem ==
  (/\ pc = "resolved" /\ run = 1 /\ isFullBackfill
   /\ EmptyMirror /\ creator.present /\ Nominal
   /\ Len(source) < maxRequests /\ WellLinked(source))
    => \A p \in 1..Len(source) :
         \A i \in 1..Len(PageItems(source, p)) :
           LET it == PageItems(source, p)[i]
           IN it.id # NullId
                => /\ it.id \in DOMAIN images
                   /\ images[it.id].post_id = it.postId

\* C25: the consecutive-fully-existing-page counter is incremented only by
\* a page in which every post group was skipped; a page of which any group
\* had content written resets the counter to zero.
C25_WrittenPageResetsCounter ==
  [][(pagesFetched' = pagesFetched + 1 /\ store' # store)
       => consecutiveFullyExistingPages' = 0]_vars

\* the last page received carried a next-page link without a cursor value
LinkWithoutCursor ==
  pagesFetched >= 1 /\ response.hasNext /\ currentCursor = NoCursor

\* C26: after a page whose next-page link yields no cursor value the run
\* issues no further page request: it leaves the loop and completes.
C26_UnparsableLinkEndsRun ==
  [][(pc = "loop" /\ LinkWithoutCursor) => pc' # "fetch"]_vars

\* C27: within one run the head page (no cursor) is requested only as the
\* first page, and no cursor is requested again after its page was
\* received, also after a full page of 200 items without next-page token.
C27_NoCursorRequestedTwice ==
  [][/\ (pagesFetched' = pagesFetched + 1 /\ pc' = "loop"
           /\ hasMore' /\ requestCount' < maxRequests)
          => currentCursor' # currentCursor
     /\ (pc' = "fetch" /\ pagesFetched' >= 1) => currentCursor' # NoCursor]_vars

\* C28: syncCreator leaves untouched every post that exists with at least
\* one image row: no step changes its posts row or any of its image rows.
C28_SyncedPostUntouched ==
  [][\A p \in DOMAIN posts :
       ImageCountOf(images, p) > 0
         => /\ p \in DOMAIN posts' /\ posts'[p] = posts[p]
            /\ \A i \in DOMAIN images :
                 images[i].post_id = p
                   => i \in DOMAIN images' /\ images'[i] = images[i]]_vars

\* ------------------------------------------------------------------------
\* The application's sync triggers, continued (AppSpec)
\* ------------------------------------------------------------------------
\* C29: in one syncAllCreators invocation a syncCreator run that throws for
\* one selected creator does not keep the remaining selected creators from
\* being synced: the invocation never ends with creators left after the
\* one that threw.
C29_ThrowDoesNotStopTheRest ==
  \A t \in Background :
    tasks[t].pc = "rejected" => Len(tasks[t].queue) <= 1

\* ------------------------------------------------------------------------
\* Cleanup (RepairSpec)
\* ------------------------------------------------------------------------
\* C30: handleCleanupPosts deletes only posts that lack a cover at the
\* moment they are deleted: a post that acquired a cover after cleanup
\* selected its id is not deleted, nor are its images.
C30_CleanupSparesCoveredPosts ==
  deletedCovered = {}
====
